---- MODULE Spec2Model ----
\* Turn orchestration of the tutoring backend: the /api/v2/agent/chat route
\* (backend/app.py), the supervisor graph (backend/graphs/supervisor) and the
\* quiz engine graph (backend/graphs/quiz_engine_graph.py).
\*
\* Python values are encoded as follows.  None is the string "None".  An
\* Optional[bool] is one of "True", "False", "None".  A thread id is a record
\* [kind, user, doc, uuid]; the absent thread id is NoId.  An absent quiz
\* engine state is NoQuizState.  A user utterance is a string of the finite
\* universe Utterances; Words gives its words, on which the phrase
\* predicates of supervisor/utils.py are computed.
EXTENDS Integers, Sequences, FiniteSets, TLC

None == "None"

\* ------------------------------------------------------------------ bounds
\* Number of turns (requests to the chat route) in a behaviour.
MaxTurns == 3

\* Number of invocations of the quiz engine in a behaviour of EngineSpec.
MaxEngineSteps == 7

\* Number of requests received in a behaviour of ConcSpec.
MaxConcTurns == 2

\* Longest conversation history given to the message utilities.
MaxHistoryLen == 3

\* ------------------------------------------------------- program constants
DEFAULT_MAX_QUIZ_QUESTIONS == 5

\* -------------------------------------------------------------- utterances
USER == "u1"

Utterances ==
    { "Hello", " ", "start quiz", "cancel quiz",
      "analyze this document", "start quiz analyze this document" }

\* str.strip() followed by a split into words
Words(q) ==
    CASE q = "Hello" -> << "Hello" >>
      [] q = " " -> << >>
      [] q = "" -> << >>
      [] q = "start quiz" -> << "start", "quiz" >>
      [] q = "cancel quiz" -> << "cancel", "quiz" >>
      [] q = "analyze this document" -> << "analyze", "this", "document" >>
      [] q = "start quiz analyze this document" ->
            << "start", "quiz", "analyze", "this", "document" >>

\* str.strip(): only the blank utterance changes
Strip(q) == IF Words(q) = << >> THEN "" ELSE q

\* str.lower() on one word
LowerWord(w) == IF w = "Hello" THEN "hello" ELSE w

Lower(ws) == [i \in 1..Len(ws) |-> LowerWord(ws[i])]

\* `phrase in query` for a phrase made of whole words
Contains(ws, phrase) ==
    \E i \in 0..(Len(ws) - Len(phrase)) :
        \A j \in 1..Len(phrase) : ws[i + j] = phrase[j]

is_quiz_start_query(q) ==
    LET query_clean == Lower(Words(q))
    IN  \/ query_clean = << "/start_quiz" >>
        \/ \E phrase \in { << "start", "quiz" >>, << "quiz", "me", "on" >>,
                           << "begin", "quiz" >> } :
              Contains(query_clean, phrase)

is_cancel_query(q) ==
    Lower(Words(q)) \in { << "cancel", "quiz" >>, << "stop", "quiz" >>,
                          << "exit", "quiz" >>, << "end", "quiz" >> }

is_document_understanding_query(q) ==
    LET query_lower == Lower(Words(q))
    IN  \E phrase \in { << "understand", "this", "document" >>,
                        << "analyze", "this", "document" >>,
                        << "explain", "this", "document" >>,
                        << "deep", "dive", "document" >>,
                        << "document", "analysis" >>,
                        << "summarize", "document", "structure" >>,
                        << "process", "this", "pdf", "deeper" >>,
                        << "extract", "layout", "from", "this", "document" >> } :
              Contains(query_lower, phrase)

\* The regular expression doc(?:ument_id)?[:\s=]?([a-zA-Z0-9_-]+) on one
\* word: "document" matches "doc" and captures "ument".
DocMatch(w) == IF LowerWord(w) = "document" THEN "ument" ELSE None

RECURSIVE FirstDocMatch(_)
FirstDocMatch(ws) ==
    IF ws = << >> THEN None
    ELSE IF DocMatch(Head(ws)) # None THEN DocMatch(Head(ws))
    ELSE FirstDocMatch(Tail(ws))

extract_document_id(q) == FirstDocMatch(Words(q))

\* ------------------------------------------------------------- quiz engine
\* The one question the generator produces (question text, options, 0-based
\* index of the correct option).
TheQuestion ==
    [ question_text |-> "q", options |-> << "A", "B" >>,
      correct_answer_index |-> 1 ]

\* The validator without its first test: a result with quiz_is_complete and
\* a next question passes.
check_next_question_and_completion_allows_both(llm) ==
    \/ ~llm.quiz_is_complete /\ ~llm.has_next_question
    \/ llm.quiz_is_complete /\ ~llm.has_final_summary

\* LLMQuizResponse.check_next_question_and_completion: TRUE when the
\* validator raises.
check_next_question_and_completion(llm) ==
    \/ llm.quiz_is_complete /\ llm.has_next_question
    \/ ~llm.quiz_is_complete /\ ~llm.has_next_question
    \/ llm.quiz_is_complete /\ ~llm.has_final_summary

\* Raw results of the generator/evaluator chain: a failed call (timeout,
\* unparsable output), or the fields of an LLMQuizResponse before
\* validation.  Every shape of (quiz_is_complete, next_question) occurs, a
\* completed one with and without final_summary; the shapes the validator
\* accepts occur with every value of is_correct.
LLMRaw ==
    { llm \in [ failed : BOOLEAN,
                is_correct : {"True", "False", None},
                has_next_question : BOOLEAN,
                quiz_is_complete : BOOLEAN,
                has_final_summary : BOOLEAN ] :
        /\ llm.failed =>
               /\ llm.is_correct = None
               /\ ~llm.has_next_question
               /\ ~llm.quiz_is_complete
        /\ llm.has_final_summary => llm.quiz_is_complete
        /\ ~llm.failed /\ check_next_question_and_completion(llm) =>
               llm.is_correct = "True" }

feedback_for_user(llm) == IF llm.is_correct = None THEN None ELSE "feedback"

NoQuizState == [ status |-> "absent" ]

NoId == [ kind |-> "none" ]

new_question_entry ==
    [ question_text |-> TheQuestion.question_text,
      options |-> TheQuestion.options,
      correct_answer_index |-> TheQuestion.correct_answer_index,
      correct_answer_text |->
          TheQuestion.options[TheQuestion.correct_answer_index + 1],
      user_answer |-> None, is_correct_from_llm |-> None,
      feedback_from_llm |-> None ]

\* The except branch of call_quiz_engine_node, returning an emptied quiz.
QuizEngineError_resets_quiz(state) ==
    [ state EXCEPT !.status = "error",
                   !.error_message = "Error in quiz engine node",
                   !.current_feedback_to_display =
                       "An unexpected error occurred.",
                   !.quiz_history = << >>,
                   !.score = 0,
                   !.current_question_index = 0 ]

\* The except branch of call_quiz_engine_node.
QuizEngineError(state) ==
    [ state EXCEPT !.status = "error",
                   !.error_message = "Error in quiz engine node",
                   !.current_feedback_to_display =
                       "An unexpected error occurred." ]

\* call_quiz_engine_node: the state of the quiz graph after the node's
\* update is merged into the state it was invoked with.  Indices are the
\* Python 0-based ones; quiz_history[i + 1] is Python's quiz_history[i].
call_quiz_engine_node(state, llm) ==
    LET current_status == state.status
        idx == state.current_question_index
        chain_raises ==
            \/ current_status \notin { "generating_first_question",
                                       "evaluating_answer" }
            \/ /\ current_status = "evaluating_answer"
               /\ \/ state.quiz_history = << >>
                  \/ idx < 0
                  \/ idx >= Len(state.quiz_history)
            \/ llm.failed
            \/ check_next_question_and_completion(llm)
        evaluated ==
            llm.is_correct # None /\ current_status = "evaluating_answer"
        updated_history ==
            IF evaluated
            THEN [ state.quiz_history EXCEPT
                     ![idx + 1].user_answer = state.user_answer,
                     ![idx + 1].is_correct_from_llm = llm.is_correct,
                     ![idx + 1].feedback_from_llm = feedback_for_user(llm) ]
            ELSE state.quiz_history
        new_score ==
            IF evaluated /\ llm.is_correct = "True"
            THEN state.score + 1 ELSE state.score
        feedback == IF evaluated THEN feedback_for_user(llm) ELSE None
    IN  IF chain_raises THEN QuizEngineError(state)
        ELSE IF llm.quiz_is_complete
        THEN [ state EXCEPT
                 !.score = new_score,
                 !.status = "quiz_completed",
                 !.current_question_to_display = None,
                 !.current_feedback_to_display = "feedback and summary",
                 !.quiz_history = updated_history,
                 !.user_answer = None ]
        ELSE [ state EXCEPT
                 !.score = new_score,
                 !.quiz_history = Append(updated_history, new_question_entry),
                 !.current_question_index = Len(updated_history),
                 !.current_question_number = Len(updated_history) + 1,
                 !.status = "awaiting_answer",
                 !.current_question_to_display = TheQuestion.question_text,
                 !.current_feedback_to_display = feedback,
                 !.user_answer = None ]

\* ---------------------------------------------------------------- messages
HumanMessage(content) == [ cls |-> "HumanMessage", content |-> content ]

AIMessage(content) == [ cls |-> "AIMessage", content |-> content ]

SystemMessage(content) == [ cls |-> "SystemMessage", content |-> content ]

\* isinstance(m, BaseMessage)
_is_base_message(m) == "cls" \in DOMAIN m

\* langchain's messages_to_dict on one message
message_to_dict(m) ==
    [ type |-> CASE m.cls = "HumanMessage" -> "human"
                 [] m.cls = "AIMessage" -> "ai"
                 [] m.cls = "SystemMessage" -> "system",
      data |-> [ content |-> m.content ] ]

\* messages_from_dict rebuilding every dict as a HumanMessage.
message_from_dict_always_human(d) == HumanMessage(d.data.content)

\* langchain's messages_from_dict on one dict
message_from_dict(d) ==
    CASE d.type = "human" -> HumanMessage(d.data.content)
      [] d.type = "ai" -> AIMessage(d.data.content)
      [] d.type = "system" -> SystemMessage(d.data.content)

serialize_messages(messages) ==
    [ i \in 1..Len(messages) |->
        IF _is_base_message(messages[i]) THEN message_to_dict(messages[i])
        ELSE messages[i] ]

deserialize_messages(messages) ==
    [ i \in 1..Len(messages) |->
        IF "type" \in DOMAIN messages[i] THEN message_from_dict(messages[i])
        ELSE messages[i] ]

\* -------------------------------------------------------- supervisor state
\* The channels of SupervisorState, and the three keys app.py passes in and
\* reads back that no node writes (active_quiz_thread_id, quiz_active,
\* quiz_complete).  A thread without a checkpoint has EmptyState.
EmptyState ==
    [ user_id |-> None,
      current_query |-> "",
      conversation_history |-> << >>,
      active_chat_thread_id |-> NoId,
      document_id_for_action |-> None,
      document_snippet_for_quiz |-> None,
      next_graph_to_invoke |-> None,
      final_agent_response |-> None,
      supervisor_error_message |-> None,
      active_quiz_v2_thread_id |-> NoId,
      quiz_engine_state |-> NoQuizState,
      is_quiz_v2_active |-> FALSE,
      gcs_uri_for_action |-> None,
      mime_type_for_action |-> None,
      active_quiz_thread_id |-> NoId,
      quiz_active |-> FALSE,
      quiz_complete |-> FALSE ]

ThreadId(kind, doc, uuid) ==
    [ kind |-> kind, user |-> USER, doc |-> doc, uuid |-> uuid ]

\* The preliminary routing decision of receive_user_input_node, with the
\* start-quiz test moved before the document-understanding test.
preliminary_routing_quiz_first(is_quiz_v2_active, current_query) ==
    IF is_quiz_v2_active THEN "quiz_engine_graph"
    ELSE IF is_quiz_start_query(current_query) THEN "quiz_engine_graph"
    ELSE IF is_document_understanding_query(current_query)
    THEN "document_understanding_graph"
    ELSE "new_chat_graph"

\* The preliminary routing decision of receive_user_input_node.
preliminary_routing(is_quiz_v2_active, current_query) ==
    IF is_quiz_v2_active THEN "quiz_engine_graph"
    ELSE IF is_document_understanding_query(current_query)
    THEN "document_understanding_graph"
    ELSE IF is_quiz_start_query(current_query) THEN "quiz_engine_graph"
    ELSE "new_chat_graph"

\* receive_user_input_node: the state after the node's update is merged.
\* fresh is the uuid4 the node draws when it mints a chat thread id.
receive_user_input_node(state, fresh) ==
    LET user_id == state.user_id
        current_query == Strip(state.current_query)
        base == [ state EXCEPT !.current_query = current_query,
                               !.next_graph_to_invoke = None,
                               !.final_agent_response = None,
                               !.supervisor_error_message = None ]
        history ==
            IF current_query # ""
            THEN Append(state.conversation_history, HumanMessage(current_query))
            ELSE state.conversation_history
        document_id ==
            IF state.document_id_for_action = None
            THEN extract_document_id(current_query)
            ELSE state.document_id_for_action
        next_graph ==
            preliminary_routing(state.is_quiz_v2_active, current_query)
    IN  IF /\ current_query = ""
           /\ state.conversation_history = << >>
           /\ ~state.is_quiz_v2_active
        THEN [ base EXCEPT
                 !.final_agent_response = "Hello! How can I help you today?",
                 !.next_graph_to_invoke = "end" ]
        ELSE [ base EXCEPT
                 !.conversation_history = serialize_messages(history),
                 !.document_id_for_action = document_id,
                 !.next_graph_to_invoke = next_graph,
                 !.active_chat_thread_id =
                     IF state.active_chat_thread_id = NoId /\ user_id # None
                     THEN ThreadId("chat_thread", None, fresh)
                     ELSE state.active_chat_thread_id,
                 !.document_snippet_for_quiz =
                     IF next_graph # "quiz_engine_graph" THEN None
                     ELSE state.document_snippet_for_quiz ]

\* Outcomes of the speech-to-text step of receive_user_input_node: the
\* request carries no audio, the audio is transcribed, the recognizer
\* returns no result, the audio format is not in audio_encoding_map, or the
\* step raises.
STTResults ==
    { "no_audio", "transcribed", "no_result", "unsupported_format", "raises" }

STTFailures == { "unsupported_format", "raises" }

\* The transcript the recognizer returns.
STTTranscript == "Hello"

STTWarning(stt) ==
    CASE stt = "unsupported_format" ->
             "Speech-to-text failed: Unsupported audio format"
      [] stt = "raises" -> "Speech-to-text processing failed."
      [] OTHER -> None

\* receive_user_input_node on a request with audio: the transcript replaces
\* the query, a failure leaves the query and sets supervisor_error_message.
receive_user_input_node_with_audio(state, stt, fresh) ==
    LET updates ==
            receive_user_input_node(
                IF stt = "transcribed"
                THEN [ state EXCEPT !.current_query = STTTranscript ]
                ELSE state,
                fresh)
    IN  IF stt \in STTFailures
        THEN [ updates EXCEPT !.supervisor_error_message = STTWarning(stt) ]
        ELSE updates

\* Outcomes of DocumentRetrievalService.get_document_content_for_quiz and
\* get_document_metadata.
FetchResults == { "snippet", "failed", "empty" }

MetadataResults == { "found", "failed" }

\* The cancel branch of routing_decision_node, forwarding the utterance to
\* the quiz engine instead of ending the turn.
cancel_quiz_forwards_answer(state) ==
    [ state EXCEPT
        !.next_graph_to_invoke = "quiz_engine_graph",
        !.document_snippet_for_quiz = None ]

\* The cancel branch of routing_decision_node, leaving the quiz thread id
\* in place.
cancel_quiz_keeps_thread_id(state) ==
    [ state EXCEPT
        !.is_quiz_v2_active = FALSE,
        !.final_agent_response = "Okay, I've cancelled the quiz.",
        !.next_graph_to_invoke = "end" ]

\* The cancel branch of routing_decision_node.
cancel_quiz(state) ==
    [ state EXCEPT
        !.is_quiz_v2_active = FALSE,
        !.active_quiz_v2_thread_id = NoId,
        !.final_agent_response = "Okay, I've cancelled the quiz.",
        !.next_graph_to_invoke = "end" ]

\* The failed-fetch branch of routing_decision_node, sending the turn on
\* to the quiz engine node instead of ending it.
quiz_start_failed_routes_to_quiz(state, fetch) ==
    [ state EXCEPT
        !.supervisor_error_message =
            IF fetch = "empty" THEN "Document content is empty."
            ELSE "Failed to retrieve document content for the quiz.",
        !.final_agent_response =
            "I couldn't get the content needed to start the quiz.",
        !.is_quiz_v2_active = FALSE,
        !.next_graph_to_invoke = "quiz_engine_graph" ]

\* The failed-fetch branch of routing_decision_node.
quiz_start_failed(state, fetch) ==
    [ state EXCEPT
        !.supervisor_error_message =
            IF fetch = "empty" THEN "Document content is empty."
            ELSE "Failed to retrieve document content for the quiz.",
        !.final_agent_response =
            "I couldn't get the content needed to start the quiz.",
        !.is_quiz_v2_active = FALSE,
        !.next_graph_to_invoke = "end" ]

\* routing_decision_node: the state after the node's update is merged.
\* fresh is the uuid4 the node draws when it mints a quiz thread id.
routing_decision_node(state, fetch, metadata, fresh) ==
    LET current_query == state.current_query
        document_id_for_action == state.document_id_for_action
        preliminary_next_graph == state.next_graph_to_invoke
    IN  IF state.is_quiz_v2_active
        THEN IF is_cancel_query(current_query)
             THEN cancel_quiz(state)
             ELSE [ state EXCEPT
                      !.next_graph_to_invoke = "quiz_engine_graph",
                      !.document_snippet_for_quiz = None ]
        ELSE IF preliminary_next_graph = "document_understanding_graph"
        THEN IF document_id_for_action = None
             THEN [ state EXCEPT
                      !.supervisor_error_message =
                          "Cannot analyze document: Document ID is missing.",
                      !.final_agent_response =
                          "I can't analyze a document without knowing which one.",
                      !.next_graph_to_invoke = "end" ]
             ELSE IF state.gcs_uri_for_action = None
                     \/ state.mime_type_for_action = None
             THEN IF metadata = "found"
                  THEN [ state EXCEPT
                           !.gcs_uri_for_action = "gcs_uri",
                           !.mime_type_for_action = "mime_type",
                           !.next_graph_to_invoke =
                               "document_understanding_graph" ]
                  ELSE [ state EXCEPT
                           !.supervisor_error_message =
                               "Failed to fetch metadata for DUA",
                           !.final_agent_response =
                               "I couldn't retrieve the necessary details for document analysis.",
                           !.next_graph_to_invoke = "end" ]
             ELSE [ state EXCEPT
                      !.supervisor_error_message =
                          "GCS URI or MIME type still missing after metadata fetch attempt.",
                      !.final_agent_response =
                          "Technical details required for document analysis are missing.",
                      !.next_graph_to_invoke = "end" ]
        ELSE IF \/ preliminary_next_graph = "quiz_engine_graph"
                \/ is_quiz_start_query(current_query)
        THEN IF document_id_for_action = None
             THEN [ state EXCEPT
                      !.supervisor_error_message =
                          "Cannot start quiz: Document ID is missing.",
                      !.final_agent_response =
                          "I can't start a quiz without a document. Please specify one.",
                      !.next_graph_to_invoke = "end" ]
             ELSE IF fetch = "snippet"
             THEN [ state EXCEPT
                      !.document_snippet_for_quiz = "snippet",
                      !.is_quiz_v2_active = TRUE,
                      !.active_quiz_v2_thread_id =
                          ThreadId("quiz_v2_thread", document_id_for_action,
                                   fresh),
                      !.next_graph_to_invoke = "quiz_engine_graph" ]
             ELSE quiz_start_failed(state, fetch)
        ELSE [ state EXCEPT !.next_graph_to_invoke = "new_chat_graph" ]

\* route_based_on_decision with quiz_engine_graph missing from valid_nodes.
route_based_on_decision_no_quiz(state) ==
    IF state.next_graph_to_invoke \notin { "new_chat_graph", "end" }
    THEN "new_chat_graph"
    ELSE state.next_graph_to_invoke

\* route_based_on_decision: the node the conditional edge selects.
route_based_on_decision(state) ==
    IF state.next_graph_to_invoke
           \notin { "new_chat_graph", "quiz_engine_graph", "end" }
    THEN "new_chat_graph"
    ELSE state.next_graph_to_invoke

\* Outcomes of new_chat_graph.invoke: a response, a state with an error
\* message and no response, or an exception.
ChatResults == { "response", "error_message", "raises" }

\* invoke_new_chat_graph_node: the state after the node's update is merged.
invoke_new_chat_graph_node(state, chat) ==
    LET base == [ state EXCEPT
                    !.current_query = Strip(state.current_query),
                    !.next_graph_to_invoke = "end",
                    !.final_agent_response = None,
                    !.supervisor_error_message = None ]
        messages == deserialize_messages(state.conversation_history)
    IN  IF state.user_id = None
        THEN [ base EXCEPT
                 !.supervisor_error_message =
                     "User ID is required for the new chat graph.",
                 !.final_agent_response =
                     "I'm sorry, there was an issue identifying your user session." ]
        ELSE IF state.active_chat_thread_id = NoId
        THEN [ base EXCEPT
                 !.supervisor_error_message =
                     "Active chat thread ID is required for the new chat graph.",
                 !.final_agent_response =
                     "I'm sorry, there was a problem with tracking our conversation." ]
        ELSE IF chat = "raises"
        THEN [ base EXCEPT
                 !.supervisor_error_message =
                     "Exception invoking new_chat_graph",
                 !.final_agent_response =
                     "I'm sorry, an unexpected error occurred while I was thinking." ]
        ELSE [ base EXCEPT
                 !.final_agent_response =
                     IF chat = "response" THEN "chat answer"
                     ELSE "I encountered an issue while processing your request.",
                 !.conversation_history = serialize_messages(messages) ]

\* The input invoke_quiz_engine_graph_node builds for the quiz graph when
\* the supervisor state holds no quiz engine state.
InitialQuizInput(state) ==
    [ status |-> "generating_first_question",
      document_id |-> state.document_id_for_action,
      document_content_snippet |-> state.document_snippet_for_quiz,
      user_id |-> state.user_id,
      max_questions |-> DEFAULT_MAX_QUIZ_QUESTIONS,
      active_quiz_thread_id |-> state.active_quiz_v2_thread_id,
      quiz_history |-> << >>,
      current_question_index |-> 0,
      current_question_number |-> 0,
      score |-> 0,
      error_message |-> None,
      user_answer |-> None,
      current_question_to_display |-> None,
      current_feedback_to_display |-> None ]

\* The input it builds when the supervisor state holds a quiz engine state.
ContinuingQuizInput(state) ==
    [ state.quiz_engine_state EXCEPT
        !.user_answer = Strip(state.current_query),
        !.status = "evaluating_answer" ]

is_initial_quiz_invocation_for_thread(state) ==
    state.quiz_engine_state = NoQuizState

\* TRUE when invoke_quiz_engine_graph_node reaches graph_instance.invoke.
InvokesQuizEngine(state) ==
    /\ state.user_id # None
    /\ \/ ~is_initial_quiz_invocation_for_thread(state)
       \/ /\ state.document_id_for_action # None
          /\ state.document_snippet_for_quiz # None

quiz_input(state) ==
    IF is_initial_quiz_invocation_for_thread(state)
    THEN InitialQuizInput(state) ELSE ContinuingQuizInput(state)

\* Outcomes of quiz_engine_graph.invoke seen from the supervisor: the final
\* state of the quiz graph, or an exception out of invoke.
QuizInvokeResults == { "state", "raises" }

\* f"Quiz engine processed answer. Status: {status}"
StatusText(status) ==
    CASE status = "awaiting_answer" ->
             "Quiz engine processed answer. Status: awaiting_answer"
      [] status = "quiz_completed" ->
             "Quiz engine processed answer. Status: quiz_completed"
      [] status = "error" -> "Quiz engine processed answer. Status: error"

\* invoke_quiz_engine_graph_node: the state after the node's update is
\* merged.  response_quiz_state is what the quiz graph returned.  The
\* continuing quiz_input is the dict object of state["quiz_engine_state"],
\* which updates["quiz_engine_state"] also refers to: when invoke raises, the
\* update carries the quiz state with user_answer and status already set.
invoke_quiz_engine_graph_node(state, invoke, response_quiz_state) ==
    LET base == [ state EXCEPT
                    !.current_query = Strip(state.current_query),
                    !.final_agent_response = None,
                    !.supervisor_error_message = None,
                    !.next_graph_to_invoke = "end" ]
        stopped == [ base EXCEPT !.is_quiz_v2_active = FALSE,
                                 !.active_quiz_v2_thread_id = NoId ]
        current_status == response_quiz_state.status
        error_message_from_quiz == response_quiz_state.error_message
        final_text ==
            IF response_quiz_state.current_question_to_display # None
            THEN IF response_quiz_state.current_feedback_to_display # None
                 THEN "feedback and question" ELSE "question"
            ELSE IF response_quiz_state.current_feedback_to_display # None
            THEN response_quiz_state.current_feedback_to_display
            ELSE ""
        updated ==
            [ base EXCEPT
                !.quiz_engine_state = response_quiz_state,
                !.final_agent_response = final_text,
                !.conversation_history =
                    serialize_messages(
                        Append(state.conversation_history,
                               AIMessage(StatusText(current_status)))) ]
    IN  IF state.user_id = None
        THEN [ stopped EXCEPT
                 !.supervisor_error_message =
                     "User ID is missing. Cannot proceed with quiz.",
                 !.final_agent_response =
                     "I'm sorry, I can't start or continue the quiz without knowing who you are." ]
        ELSE IF ~InvokesQuizEngine(state)
        THEN [ stopped EXCEPT
                 !.supervisor_error_message =
                     "Document ID or content snippet is missing for starting a new quiz.",
                 !.final_agent_response =
                     "I need a document to create a quiz." ]
        ELSE IF invoke = "raises"
        THEN [ stopped EXCEPT
                 !.quiz_engine_state =
                     IF is_initial_quiz_invocation_for_thread(state)
                     THEN state.quiz_engine_state
                     ELSE ContinuingQuizInput(state),
                 !.supervisor_error_message =
                     "Exception invoking quiz_engine_graph",
                 !.final_agent_response =
                     "Sorry, a system error occurred while running the quiz." ]
        ELSE IF error_message_from_quiz # None
        THEN [ updated EXCEPT
                 !.supervisor_error_message = "Error from Quiz Engine",
                 !.is_quiz_v2_active = FALSE,
                 !.active_quiz_v2_thread_id = NoId,
                 !.next_graph_to_invoke = "end" ]
        ELSE IF current_status \in { "quiz_completed", "quiz_cancelled" }
        THEN [ updated EXCEPT
                 !.is_quiz_v2_active = FALSE,
                 !.active_quiz_v2_thread_id = NoId,
                 !.next_graph_to_invoke = "end" ]
        ELSE [ updated EXCEPT
                 !.active_quiz_v2_thread_id =
                     response_quiz_state.active_quiz_thread_id,
                 !.is_quiz_v2_active = TRUE,
                 !.next_graph_to_invoke = "quiz_engine_graph" ]

\* ------------------------------------------------------------ orchestrator
VARIABLES
    checkpoints,       \* supervisor checkpointer: thread id -> supervisor state
    quiz_checkpoints,  \* quiz checkpointer: quiz thread id -> quiz engine state
    uuid,              \* number of uuid4 values drawn so far
    turns,             \* number of turns served so far
    last,              \* the request, the trace and the response of the last turn
    requests           \* the turns in flight, when turns are served step by step

vars == << checkpoints, quiz_checkpoints, uuid, turns, last, requests >>

DocumentIds == { None, "d1" }

Unused == "unused"

NoLLM ==
    [ failed |-> FALSE, is_correct |-> None, has_next_question |-> FALSE,
      quiz_is_complete |-> FALSE, has_final_summary |-> FALSE ]

\* compiled_supervisor_graph.get_state(config).values
get_state(thread_id) ==
    IF thread_id \in DOMAIN checkpoints THEN checkpoints[thread_id]
    ELSE EmptyState

\* supervisor_input built with an empty conversation history whatever the
\* thread has stored.
supervisor_input_without_history(stored, query, document_id) ==
    [ stored EXCEPT
        !.user_id = USER,
        !.current_query = query,
        !.document_id_for_action = document_id,
        !.conversation_history = << >> ]

\* The state the supervisor graph starts the turn with: the thread's
\* checkpoint overwritten by the keys of supervisor_input.
supervisor_input(stored, query, document_id) ==
    [ stored EXCEPT
        !.user_id = USER,
        !.current_query = query,
        !.document_id_for_action = document_id,
        !.conversation_history =
            serialize_messages(deserialize_messages(stored.conversation_history)) ]

\* The thread id the dual checkpoint of agent_chat_route is written under,
\* NoId when the route skips it.
quiz_specific_thread(result, thread_id) ==
    IF /\ result.quiz_active
       /\ result.active_quiz_thread_id # NoId
       /\ result.active_quiz_thread_id # thread_id
    THEN result.active_quiz_thread_id ELSE NoId

\* response_data of agent_chat_route
response_data(result, thread_id) ==
    [ response |-> result.final_agent_response,
      thread_id |-> IF result.active_quiz_thread_id # NoId
                    THEN result.active_quiz_thread_id ELSE thread_id,
      quiz_active |-> result.is_quiz_v2_active,
      quiz_complete |-> result.quiz_complete,
      error_detail |-> result.supervisor_error_message ]

NoTurn ==
    [ request_thread_id |-> NoId, thread_id |-> NoId,
      was_quiz_active |-> FALSE, routing |-> None, target |-> "none",
      invoke |-> Unused, fetch |-> Unused, stt |-> "no_audio",
      minted_quiz_thread_id |-> NoId,
      chat_invoked |-> FALSE, engine_invoked |-> FALSE,
      engine_thread_id |-> NoId, engine_input |-> NoQuizState,
      llm |-> NoLLM, response |-> response_data(EmptyState, NoId) ]

Init ==
    /\ checkpoints = << >>
    /\ quiz_checkpoints = << >>
    /\ uuid = 0
    /\ turns = 0
    /\ last = NoTurn
    /\ requests = << >>

\* The thread ids the caller sends: none on the first request of its
\* conversation, then a thread id it got back in a response (every response
\* carries the id of a stored thread, see response_data).
RequestThreads ==
    IF checkpoints = << >> THEN {NoId} ELSE DOMAIN checkpoints

Put(store, key, value) ==
    [ k \in DOMAIN store \cup {key} |-> IF k = key THEN value ELSE store[k] ]

\* TRUE when routing_decision_node calls get_document_content_for_quiz.
FetchesSnippet(s1) ==
    /\ ~s1.is_quiz_v2_active
    /\ s1.next_graph_to_invoke # "document_understanding_graph"
    /\ \/ s1.next_graph_to_invoke = "quiz_engine_graph"
       \/ is_quiz_start_query(s1.current_query)
    /\ s1.document_id_for_action # None

\* TRUE when routing_decision_node calls get_document_metadata.
FetchesMetadata(s1) ==
    /\ ~s1.is_quiz_v2_active
    /\ s1.next_graph_to_invoke = "document_understanding_graph"
    /\ s1.document_id_for_action # None
    /\ \/ s1.gcs_uri_for_action = None
       \/ s1.mime_type_for_action = None

\* TRUE when the turn reaches new_chat_graph.invoke.
InvokesChat(s2) ==
    /\ route_based_on_decision(s2) = "new_chat_graph"
    /\ s2.user_id # None
    /\ s2.active_chat_thread_id # NoId

\* The supervisor graph: receive_user_input -> routing_decision -> the node
\* the conditional edge selects -> END.
supervisor_node(target, s2, chat, invoke, response_quiz_state) ==
    CASE target = "new_chat_graph" -> invoke_new_chat_graph_node(s2, chat)
      [] target = "quiz_engine_graph" ->
             invoke_quiz_engine_graph_node(s2, invoke, response_quiz_state)
      [] target = "end" -> s2

\* agent_chat_route: one turn, from the request to the response.  The
\* outcome of each collaborator the turn consults is chosen at the call; an
\* outcome the turn does not consult is Unused (NoLLM for the generator).
\* stt is the outcome of the speech-to-text step of the turn.
agent_chat_route_with_audio(request_thread_id, query, document_id, stt) ==
    /\ turns < MaxTurns
    /\ \E thread_id \in { IF request_thread_id = NoId
                          THEN ThreadId("thread", None, uuid + 1)
                          ELSE request_thread_id } :
       \E uuid1 \in { IF request_thread_id = NoId THEN uuid + 1 ELSE uuid },
             s0 \in { supervisor_input(get_state(thread_id), query,
                                       document_id) } :
          \E s1 \in { receive_user_input_node_with_audio(s0, stt,
                                                         uuid1 + 1) } :
          \E uuid2 \in { IF s1.active_chat_thread_id # s0.active_chat_thread_id
                         THEN uuid1 + 1 ELSE uuid1 },
             fetch \in (IF FetchesSnippet(s1) THEN FetchResults ELSE {Unused}),
             metadata \in (IF FetchesMetadata(s1) THEN MetadataResults
                           ELSE {Unused}) :
          \E s2 \in { routing_decision_node(s1, fetch, metadata, uuid2 + 1) } :
          \E minted \in { /\ s2.active_quiz_v2_thread_id
                               # s1.active_quiz_v2_thread_id
                          /\ s2.active_quiz_v2_thread_id # NoId },
             target \in { route_based_on_decision(s2) } :
          \E engine_invoked \in { /\ target = "quiz_engine_graph"
                                  /\ InvokesQuizEngine(s2) },
             chat \in (IF InvokesChat(s2) THEN ChatResults ELSE {Unused}) :
          \E invoke \in (IF engine_invoked THEN QuizInvokeResults
                         ELSE {Unused}) :
          \E llm \in (IF invoke = "state" THEN LLMRaw ELSE {NoLLM}) :
          \E response_quiz_state \in
                 { IF invoke = "state"
                   THEN call_quiz_engine_node(quiz_input(s2), llm)
                   ELSE NoQuizState } :
          \E result \in { supervisor_node(target, s2, chat, invoke,
                                          response_quiz_state) } :
          \E quiz_thread \in { quiz_specific_thread(result, thread_id) } :
             /\ checkpoints' =
                    IF quiz_thread # NoId
                    THEN Put(Put(checkpoints, thread_id, result),
                             quiz_thread, result)
                    ELSE Put(checkpoints, thread_id, result)
             /\ quiz_checkpoints' =
                    IF invoke = "state"
                    THEN Put(quiz_checkpoints, s2.active_quiz_v2_thread_id,
                             response_quiz_state)
                    ELSE quiz_checkpoints
             /\ uuid' = IF minted THEN uuid2 + 1 ELSE uuid2
             /\ turns' = turns + 1
             /\ UNCHANGED requests
             /\ last' =
                    [ request_thread_id |-> request_thread_id,
                      thread_id |-> thread_id,
                      was_quiz_active |-> s0.is_quiz_v2_active,
                      routing |-> s2.next_graph_to_invoke,
                      target |-> target,
                      invoke |-> invoke,
                      fetch |-> fetch,
                      stt |-> stt,
                      minted_quiz_thread_id |->
                          IF minted THEN s2.active_quiz_v2_thread_id ELSE NoId,
                      chat_invoked |-> chat # Unused,
                      engine_invoked |-> engine_invoked,
                      engine_thread_id |->
                          IF engine_invoked THEN s2.active_quiz_v2_thread_id
                          ELSE NoId,
                      engine_input |->
                          IF engine_invoked THEN quiz_input(s2)
                          ELSE NoQuizState,
                      llm |-> llm,
                      response |-> response_data(result, thread_id) ]

\* agent_chat_route on a request without audio.
agent_chat_route(request_thread_id, query, document_id) ==
    agent_chat_route_with_audio(request_thread_id, query, document_id,
                                "no_audio")

Next ==
    \E request_thread_id \in RequestThreads, query \in Utterances,
       document_id \in DocumentIds :
        agent_chat_route(request_thread_id, query, document_id)

Spec == Init /\ [][Next]_vars

TypeOK ==
    /\ turns \in 0..(MaxTurns + MaxEngineSteps)
    /\ uuid \in Nat

\* ------------------------------------------------------------- properties
\* The stored state of the thread the last turn ran on, and the utterance
\* of that turn as the graph saw it.
LastState == get_state(last.thread_id)

LastQuery == LastState.current_query

TurnDone == last.target # "none"

QuizStates ==
    { checkpoints[t].quiz_engine_state : t \in DOMAIN checkpoints }
    \cup { quiz_checkpoints[t] : t \in DOMAIN quiz_checkpoints }

\* C1: after every completed turn, the session's is_quiz_v2_active flag is
\* true exactly when its active_quiz_v2_thread_id is not None.
C1_FlagMatchesQuizThread ==
    \A t \in DOMAIN checkpoints :
        checkpoints[t].is_quiz_v2_active
            <=> checkpoints[t].active_quiz_v2_thread_id # NoId

\* A quiz was cancelled while it was active: the flag and the thread id were
\* both set before the turn and are both cleared after it.
C1_Witness ==
    /\ TurnDone
    /\ last.was_quiz_active
    /\ is_cancel_query(LastQuery)
    /\ ~LastState.is_quiz_v2_active
    /\ LastState.active_quiz_v2_thread_id = NoId

\* C2: on the turn that starts a quiz (a quiz thread id is minted and the
\* quiz is active at the end of the turn), the resulting session state is
\* stored under the conversation thread id and under the new quiz thread id,
\* so that get_state of the quiz thread id returns it.
C2_DualCheckpoint ==
    ( /\ TurnDone
      /\ last.minted_quiz_thread_id # NoId
      /\ LastState.is_quiz_v2_active )
    => /\ last.thread_id \in DOMAIN checkpoints
       /\ last.minted_quiz_thread_id \in DOMAIN checkpoints
       /\ get_state(last.minted_quiz_thread_id) = LastState

\* C3: the thread_id of a turn's response is the active quiz thread id when
\* a quiz is active at the end of the turn, and the conversation thread id
\* otherwise.
C3_ResponseThreadId ==
    TurnDone =>
        last.response.thread_id =
            IF LastState.is_quiz_v2_active
            THEN LastState.active_quiz_v2_thread_id
            ELSE last.thread_id

MatchesBoth(q) == is_quiz_start_query(q) /\ is_document_understanding_query(q)

\* The error details routing_decision_node sets when a quiz start fails.
QuizStartErrors ==
    { "Cannot start quiz: Document ID is missing.",
      "Document content is empty.",
      "Failed to retrieve document content for the quiz." }

\* C4 as stated: with no quiz active, an utterance that matches a start-quiz
\* phrase and a document-understanding phrase is routed as a quiz start (a
\* quiz thread id is minted, or the turn ends with a quiz-start error), not
\* to document analysis.
C4_QuizStartFirst ==
    ( TurnDone /\ ~last.was_quiz_active /\ MatchesBoth(LastQuery) )
    => \/ last.minted_quiz_thread_id # NoId
       \/ last.response.error_detail \in QuizStartErrors

\* C4 amended: with no quiz active the order is document-understanding,
\* then start-quiz, then chat, and the first match wins.  An utterance that
\* matches a document-understanding phrase, also one that matches a
\* start-quiz phrase as well, takes the document-understanding branch: no
\* quiz thread id is minted and the quiz engine is not invoked.  An
\* utterance that matches only a start-quiz phrase takes the start-quiz
\* branch and never reaches the chat capability.  Any other utterance is
\* routed to chat.
C4_DocumentUnderstandingFirst ==
    ( TurnDone /\ ~last.was_quiz_active )
    => /\ is_document_understanding_query(LastQuery) =>
              /\ last.routing \in { "document_understanding_graph", "end" }
              /\ last.minted_quiz_thread_id = NoId
              /\ ~last.engine_invoked
              /\ last.response.error_detail \notin QuizStartErrors
       /\ ( /\ ~is_document_understanding_query(LastQuery)
            /\ is_quiz_start_query(LastQuery) ) =>
              /\ last.routing \in { "quiz_engine_graph", "end" }
              /\ ~last.chat_invoked
              /\ \/ last.minted_quiz_thread_id # NoId
                 \/ last.response.error_detail \in QuizStartErrors
       /\ ( /\ ~is_document_understanding_query(LastQuery)
            /\ ~is_quiz_start_query(LastQuery) ) =>
              /\ last.routing = "new_chat_graph"
              /\ last.minted_quiz_thread_id = NoId
              /\ ~last.engine_invoked

\* An utterance matching both phrases, with a document whose metadata was
\* found, went down the document-understanding branch and no quiz started.
C4_Witness ==
    /\ TurnDone
    /\ ~last.was_quiz_active
    /\ MatchesBoth(LastQuery)
    /\ LastState.document_id_for_action = "d1"
    /\ last.routing = "document_understanding_graph"
    /\ last.minted_quiz_thread_id = NoId
    /\ ~LastState.is_quiz_v2_active

\* C5: while a quiz is active, every utterance that is not a cancellation
\* phrase is forwarded to the quiz engine as the answer to the current
\* question: the engine is invoked in status evaluating_answer with the
\* utterance as user_answer, no quiz thread id is minted and the chat
\* capability is not invoked.
C5_ActiveQuizForwardsAnswer ==
    ( TurnDone /\ last.was_quiz_active /\ ~is_cancel_query(LastQuery) )
    => /\ last.target = "quiz_engine_graph"
       /\ last.engine_invoked
       /\ last.engine_input.status = "evaluating_answer"
       /\ last.engine_input.user_answer = LastQuery
       /\ last.engine_input.quiz_history # << >>
       /\ last.minted_quiz_thread_id = NoId
       /\ ~last.chat_invoked

\* A start-quiz phrase said during an active quiz was taken as an answer.
C5_Witness ==
    /\ TurnDone
    /\ last.was_quiz_active
    /\ is_quiz_start_query(LastQuery)
    /\ last.engine_invoked
    /\ last.engine_input.user_answer = LastQuery
    /\ last.minted_quiz_thread_id = NoId

TerminalStatuses == { "quiz_completed", "error" }

\* C6: quiz_completed and error are terminal: once a quiz session (the quiz
\* engine state of a conversation, identified by its active_quiz_thread_id)
\* has either status, no later turn invokes the quiz engine on it to
\* evaluate an answer, and its question history, score and status do not
\* change.
C6_TerminalStatusesAreFinal ==
    [][ \A t \in DOMAIN checkpoints :
          LET quiz == checkpoints[t].quiz_engine_state
              later == checkpoints'[t].quiz_engine_state
          IN  quiz.status \in TerminalStatuses =>
                /\ ~( /\ last'.thread_id = t
                      /\ last'.engine_invoked
                      /\ last'.engine_input.active_quiz_thread_id
                             = quiz.active_quiz_thread_id )
                /\ later.active_quiz_thread_id = quiz.active_quiz_thread_id =>
                      /\ later.quiz_history = quiz.quiz_history
                      /\ later.score = quiz.score
                      /\ later.status = quiz.status ]_vars

Answered(quiz) ==
    { i \in DOMAIN quiz.quiz_history : quiz.quiz_history[i].user_answer # None }

\* C7: in every reachable quiz session state, score is at most the number
\* of quiz_history entries whose user_answer is not None.
C7_ScoreAtMostAnswered ==
    \A quiz \in QuizStates :
        quiz # NoQuizState => quiz.score <= Cardinality(Answered(quiz))

\* C8: in every reachable quiz session state that holds at least one
\* question, current_question_index is a valid index into quiz_history and
\* every entry other than the one at current_question_index has a user
\* answer.
C8_OnlyCurrentEntryUnanswered ==
    \A quiz \in QuizStates :
        ( quiz # NoQuizState /\ quiz.quiz_history # << >> ) =>
            /\ quiz.current_question_index \in 0..(Len(quiz.quiz_history) - 1)
            /\ \A i \in DOMAIN quiz.quiz_history :
                   i # quiz.current_question_index + 1 =>
                       quiz.quiz_history[i].user_answer # None

\* The quiz state the engine returned on the last turn.
LastQuizState == quiz_checkpoints[last.engine_thread_id]

EngineReturned == TurnDone /\ last.engine_invoked /\ last.invoke = "state"

\* C9: an invocation of the engine in status generating_first_question ends
\* in one of two ways: question 1 is the only entry of the history, at
\* index 0, with current index 0, score 0 and status awaiting_answer; or the
\* status is error and an error message is set.
C9_FirstQuestionOutcomes ==
    ( EngineReturned
      /\ last.engine_input.status = "generating_first_question" )
    => \/ /\ LastQuizState.status = "awaiting_answer"
          /\ LastQuizState.quiz_history = << new_question_entry >>
          /\ LastQuizState.current_question_index = 0
          /\ LastQuizState.score = 0
       \/ /\ LastQuizState.status = "error"
          /\ LastQuizState.error_message # None

\* TRUE when the last turn had the evaluator grade an answer to an existing
\* question and it returned the next-question shape.
NextQuestionShapeReturned ==
    /\ EngineReturned
    /\ last.engine_input.status = "evaluating_answer"
    /\ last.engine_input.quiz_history # << >>
    /\ last.engine_input.current_question_index
           \in 0..(Len(last.engine_input.quiz_history) - 1)
    /\ ~last.llm.failed
    /\ last.llm.has_next_question
    /\ ~last.llm.quiz_is_complete

\* C10: when an answer is evaluated and the evaluator returns the
\* next-question shape, the answered entry records the user's answer, the
\* correctness and the feedback, score grows by 1 exactly when the answer
\* is judged correct, one question is appended, current_question_index
\* points to it and status is awaiting_answer.
C10_NextQuestionShape ==
    NextQuestionShapeReturned =>
        LET before == last.engine_input
            after == LastQuizState
            answered == before.current_question_index + 1
        IN  /\ Len(after.quiz_history) = Len(before.quiz_history) + 1
            /\ \A i \in DOMAIN before.quiz_history :
                   i # answered => after.quiz_history[i] = before.quiz_history[i]
            /\ after.quiz_history[answered].user_answer = before.user_answer
            /\ after.quiz_history[answered].is_correct_from_llm
                   = last.llm.is_correct
            /\ after.quiz_history[answered].feedback_from_llm
                   = feedback_for_user(last.llm)
            /\ after.score = before.score
                   + (IF last.llm.is_correct = "True" THEN 1 ELSE 0)
            /\ after.quiz_history[Len(after.quiz_history)] = new_question_entry
            /\ after.current_question_index = Len(after.quiz_history) - 1
            /\ after.status = "awaiting_answer"

\* ------------------------------------------------- the quiz engine alone
\* One quiz driven the way invoke_quiz_engine_graph_node drives it: a first
\* invocation in generating_first_question, then one invocation in
\* evaluating_answer per answer while the quiz awaits an answer.  The quiz
\* engine state is kept in quiz_checkpoints under the quiz thread id.
EngineThread == ThreadId("quiz_v2_thread", "d1", 1)

EngineSupervisorState ==
    [ EmptyState EXCEPT
        !.user_id = USER,
        !.document_id_for_action = "d1",
        !.document_snippet_for_quiz = "snippet",
        !.is_quiz_v2_active = TRUE,
        !.active_quiz_v2_thread_id = EngineThread ]

Answers == { "Hello", "start quiz" }

EngineInvoke(input, llm) ==
    /\ turns < MaxEngineSteps
    /\ quiz_checkpoints' =
           Put(quiz_checkpoints, EngineThread, call_quiz_engine_node(input, llm))
    /\ turns' = turns + 1
    /\ last' = [ NoTurn EXCEPT
                   !.target = "quiz_engine_graph",
                   !.invoke = "state",
                   !.engine_invoked = TRUE,
                   !.engine_thread_id = EngineThread,
                   !.engine_input = input,
                   !.llm = llm ]
    /\ UNCHANGED << checkpoints, uuid, requests >>

EngineStart ==
    /\ EngineThread \notin DOMAIN quiz_checkpoints
    /\ \E llm \in LLMRaw :
          EngineInvoke(quiz_input(EngineSupervisorState), llm)

EngineAnswer ==
    /\ EngineThread \in DOMAIN quiz_checkpoints
    /\ quiz_checkpoints[EngineThread].status = "awaiting_answer"
    /\ \E answer \in Answers, llm \in LLMRaw :
          EngineInvoke(
              quiz_input([ EngineSupervisorState EXCEPT
                             !.current_query = answer,
                             !.quiz_engine_state =
                                 quiz_checkpoints[EngineThread] ]),
              llm)

EngineNext == EngineStart \/ EngineAnswer

EngineSpec == Init /\ [][EngineNext]_vars

\* C11: a quiz never holds more than max_questions questions, and when the
\* answer to question number max_questions is evaluated the status becomes
\* quiz_completed and no further question is appended.
C11_AtMostMaxQuestions ==
    /\ \A quiz \in QuizStates :
           quiz # NoQuizState => Len(quiz.quiz_history) <= quiz.max_questions
    /\ ( /\ EngineReturned
         /\ last.engine_input.status = "evaluating_answer"
         /\ last.engine_input.current_question_number
                = last.engine_input.max_questions
         /\ ~last.llm.failed
         /\ ~check_next_question_and_completion(last.llm) )
       => /\ LastQuizState.status = "quiz_completed"
          /\ Len(LastQuizState.quiz_history)
                 = Len(last.engine_input.quiz_history)

\* A result of the generator/evaluator that LLMQuizResponse rejects.
Malformed(llm) ==
    /\ ~llm.failed
    /\ \/ llm.quiz_is_complete /\ llm.has_next_question
       \/ ~llm.quiz_is_complete /\ ~llm.has_next_question
       \/ llm.quiz_is_complete /\ ~llm.has_final_summary

\* C12: a result that carries both quiz_is_complete and a next question, or
\* neither, or completion without a final summary, puts the engine in
\* status error with an error message; it is not turned into an
\* awaiting_answer or quiz_completed transition (no question is appended,
\* no answer is recorded).
C12_MalformedResultIsError ==
    ( EngineReturned /\ Malformed(last.llm) )
    => /\ LastQuizState.status = "error"
       /\ LastQuizState.error_message # None
       /\ LastQuizState.quiz_history = last.engine_input.quiz_history
       /\ LastQuizState.score = last.engine_input.score

\* An answer was evaluated and the evaluator returned both a completion
\* and a next question; the quiz is in status error.
C12_Witness ==
    /\ EngineReturned
    /\ last.engine_input.status = "evaluating_answer"
    /\ last.engine_input.quiz_history # << >>
    /\ ~last.llm.failed
    /\ last.llm.quiz_is_complete
    /\ last.llm.has_next_question
    /\ LastQuizState.status = "error"

\* TRUE of a turn record in which the quiz engine was invoked and the
\* generator/evaluator call failed, returned a malformed result, or the
\* invocation of the quiz graph raised.
FailedQuizTurn(turn) ==
    /\ turn.engine_invoked
    /\ \/ turn.invoke = "raises"
       \/ turn.llm.failed
       \/ Malformed(turn.llm)

\* C13: a quiz turn in which the generator/evaluator call fails or returns
\* a malformed result does not advance quiz state: the question history
\* (with the user_answer, correctness and feedback of every entry), the
\* score and the current question index stored after the turn are those
\* stored before it; when no quiz state was stored before, the stored
\* state, if any, has an empty history, score 0 and index 0.
C13_FailedTurnKeepsQuizState ==
    [][ FailedQuizTurn(last') =>
          LET t == last'.thread_id
              before == get_state(t).quiz_engine_state
              after == checkpoints'[t].quiz_engine_state
          IN  IF before # NoQuizState
              THEN /\ after # NoQuizState
                   /\ after.quiz_history = before.quiz_history
                   /\ after.score = before.score
                   /\ after.current_question_index
                          = before.current_question_index
              ELSE \/ after = NoQuizState
                   \/ /\ after.quiz_history = << >>
                      /\ after.score = 0
                      /\ after.current_question_index = 0 ]_vars

\* The evaluator call failed on an answer to an existing question: the
\* quiz is in status error and its history is the one the turn started with.
C13_Witness ==
    /\ TurnDone
    /\ last.engine_invoked
    /\ last.invoke = "state"
    /\ last.llm.failed
    /\ last.engine_input.status = "evaluating_answer"
    /\ last.engine_input.quiz_history # << >>
    /\ LastState.quiz_engine_state.status = "error"
    /\ LastState.quiz_engine_state.quiz_history
           = last.engine_input.quiz_history

\* C14: after every quiz turn the stored quiz session status is one of
\* awaiting_answer, quiz_completed or error; when the invocation of the
\* engine raised, the status is error and the feedback surfaced to the user
\* is "An unexpected error occurred."
C14_DeterminateStatus ==
    ( TurnDone /\ last.engine_invoked ) =>
        LET quiz == LastState.quiz_engine_state
        IN  /\ quiz # NoQuizState =>
                   quiz.status \in { "awaiting_answer", "quiz_completed",
                                     "error" }
            /\ ( /\ quiz # NoQuizState
                 /\ last.invoke = "raises" \/ last.llm.failed ) =>
                   /\ quiz.status = "error"
                   /\ quiz.current_feedback_to_display
                          = "An unexpected error occurred."

\* C15: when a quiz is active and the utterance is a cancellation phrase,
\* the turn ends at END without invoking the quiz engine (or chat), the
\* session becomes quiz-inactive with its quiz thread id cleared, and the
\* conversation thread id (the one the turn ran on and the one the response
\* carries) is the one of the request.
C15_CancelEndsQuiz ==
    ( TurnDone /\ last.was_quiz_active /\ is_cancel_query(LastQuery) )
    => /\ last.target = "end"
       /\ ~last.engine_invoked
       /\ ~last.chat_invoked
       /\ ~LastState.is_quiz_v2_active
       /\ LastState.active_quiz_v2_thread_id = NoId
       /\ last.thread_id = last.request_thread_id
       /\ last.response.thread_id = last.request_thread_id
       /\ ~last.response.quiz_active

\* "cancel quiz" was said during an active quiz whose first question had
\* been asked; the response carries the cancellation acknowledgment.
C15_Witness ==
    /\ TurnDone
    /\ last.was_quiz_active
    /\ LastQuery = "cancel quiz"
    /\ LastState.quiz_engine_state # NoQuizState
    /\ last.target = "end"
    /\ last.response.response = "Okay, I've cancelled the quiz."
    /\ last.response.thread_id = last.request_thread_id

\* TRUE when the last turn took the quiz-start branch of routing: no quiz
\* was active and the utterance matched a start-quiz phrase and no
\* document-understanding phrase (which is tested first).
QuizStartTurn ==
    /\ TurnDone
    /\ ~last.was_quiz_active
    /\ is_quiz_start_query(LastQuery)
    /\ ~is_document_understanding_query(LastQuery)

\* C16: a start-quiz turn whose document reference is missing, or whose
\* document content cannot be fetched or is empty, ends at END with an
\* error message, leaves the session quiz-inactive, mints no quiz thread id
\* and does not invoke the quiz engine.
C16_QuizStartWithoutContent ==
    ( /\ QuizStartTurn
      /\ \/ LastState.document_id_for_action = None
         \/ last.fetch \in { "failed", "empty" } )
    => /\ last.target = "end"
       /\ last.response.error_detail \in QuizStartErrors
       /\ last.response.response # None
       /\ ~LastState.is_quiz_v2_active
       /\ LastState.active_quiz_v2_thread_id = NoId
       /\ ~last.response.quiz_active
       /\ last.minted_quiz_thread_id = NoId
       /\ ~last.engine_invoked
       /\ ~last.chat_invoked

\* "start quiz" was said for document d1 whose content is empty.
C16_Witness ==
    /\ QuizStartTurn
    /\ LastState.document_id_for_action = "d1"
    /\ last.fetch = "empty"
    /\ last.response.error_detail = "Document content is empty."
    /\ ~LastState.is_quiz_v2_active

\* TRUE when the last turn evaluated an answer of an active quiz and the
\* quiz engine's status became quiz_completed.
QuizCompletedOnLastTurn ==
    /\ EngineReturned
    /\ last.was_quiz_active
    /\ last.engine_input.status = "evaluating_answer"
    /\ LastQuizState.status = "quiz_completed"

\* C17: the quiz_complete field of a turn's response is true on the turn
\* in which the quiz engine's status becomes quiz_completed and false on
\* every other turn.
C17_QuizCompleteField ==
    TurnDone =>
        /\ QuizCompletedOnLastTurn => last.response.quiz_complete
        /\ last.response.quiz_complete =>
               /\ EngineReturned
               /\ LastQuizState.status = "quiz_completed"

\* ------------------------------------------------ turns served in steps
\* The chat route served by concurrent workers.  A turn is a sequence of
\* steps: the route reads the thread's checkpoint and builds the input
\* (Receive); compiled_supervisor_graph.invoke loads the thread's checkpoint,
\* applies the input and saves it (Load); each node of the graph runs on the
\* in-memory state and the checkpointer's put saves the state after it; the
\* quiz graph saves its own checkpoint inside the quiz node; the route
\* builds the response (Respond).  A worker can stop at any step (Abandon).
\* Steps of different turns interleave freely: nothing in the route or the
\* graph takes a lock.
Slots == { "w1", "w2" }

\* The worker that takes a request when no turn is in flight.
FirstWorker == "w1"

ConcUtterances == { "Hello", "start quiz", "cancel quiz" }

\* Results of the generator/evaluator in ConcSpec: the two shapes the
\* validator accepts, the answer judged correct.
ConcLLM ==
    { llm \in LLMRaw : /\ ~llm.failed
                       /\ ~check_next_question_and_completion(llm)
                       /\ llm.is_correct = "True" }

InFlight ==
    { "invoke", "receive_user_input", "routing_decision", "new_chat_graph",
      "quiz_engine_graph", "quiz_engine_update", "respond" }

IdleRequest ==
    [ pc |-> "idle", thread_id |-> NoId, query |-> "", document_id |-> None,
      llm |-> NoLLM, fresh |-> 0,
      read |-> EmptyState, own_before |-> EmptyState,
      loaded |-> EmptyState, state |-> EmptyState,
      quiz_response |-> NoQuizState, quiz_written |-> FALSE,
      quiz_thread_id |-> NoId, ran |-> << >>,
      response |-> response_data(EmptyState, NoId),
      latest_writer |-> FALSE, overlapped |-> FALSE, concurrent |-> FALSE,
      before_checkpoints |-> << >>, before_quiz_checkpoints |-> << >> ]

\* The supervisor graph run from the state s0 to END, with the document
\* found, a chat response and the quiz graph returning a state.  fresh is
\* the last uuid4 drawn before the run.
run_supervisor_graph(s0, fresh, llm) ==
    LET s1 == receive_user_input_node(s0, fresh + 1)
        s2 == routing_decision_node(s1, "snippet", "found", fresh + 2)
        target == route_based_on_decision(s2)
        invoke == IF target = "quiz_engine_graph" /\ InvokesQuizEngine(s2)
                  THEN "state" ELSE Unused
        response_quiz_state ==
            IF invoke = "state"
            THEN call_quiz_engine_node(quiz_input(s2), llm)
            ELSE NoQuizState
    IN  supervisor_node(target, s2, "response", invoke, response_quiz_state)

\* A conversation whose first turn, "start quiz" on document d1, was served
\* and whose quiz awaits the answer to question 1.
StartedThread == ThreadId("thread", None, 1)

StartedState ==
    run_supervisor_graph(supervisor_input(EmptyState, "start quiz", "d1"), 1,
                         CHOOSE llm \in ConcLLM : llm.has_next_question)

\* ConcSpec starts with empty stores, or after the first turn of
\* StartedThread.
\* The edges of the supervisor graph with new_chat_graph wired to
\* quiz_engine_graph instead of END.
graph_edge_chat_then_quiz(node, state) ==
    CASE node = "receive_user_input" -> "routing_decision"
      [] node = "routing_decision" -> route_based_on_decision(state)
      [] node = "new_chat_graph" -> "quiz_engine_graph"
      [] node = "quiz_engine_graph" -> "end"

\* The edges of the supervisor graph: the node that runs after the given
\* node returned the given state, "end" for END.
graph_edge(node, state) ==
    CASE node = "receive_user_input" -> "routing_decision"
      [] node = "routing_decision" -> route_based_on_decision(state)
      [] node = "new_chat_graph" -> "end"
      [] node = "quiz_engine_graph" -> "end"

\* The position of a worker whose graph run goes on at the given node.
PcOf(node) == IF node = "end" THEN "respond" ELSE node

ConcInit ==
    /\ turns = 0
    /\ last = NoTurn
    /\ requests = [ w \in Slots |-> IdleRequest ]
    /\ \/ /\ checkpoints = << >>
          /\ quiz_checkpoints = << >>
          /\ uuid = 0
       \/ /\ checkpoints = Put(<< >>, StartedThread, StartedState)
          /\ quiz_checkpoints =
                 Put(<< >>, StartedState.active_quiz_v2_thread_id,
                     StartedState.quiz_engine_state)
          /\ uuid = 3

\* SqliteSaver.put of the supervisor checkpointer, saving the merged
\* history of the stored and the new state instead of the new state.
put_checkpoint_merging_history(store, thread_id, values) ==
    Put(store, thread_id,
        IF thread_id \in DOMAIN store
        THEN [ values EXCEPT
                 !.conversation_history =
                     store[thread_id].conversation_history
                         \o values.conversation_history ]
        ELSE values)

\* SqliteSaver.put of the supervisor checkpointer: the state of the run
\* replaces the thread's checkpoint.
put_checkpoint(store, thread_id, values) == Put(store, thread_id, values)

\* The checkpoint of a thread read without its thread id: the checkpoint of
\* some stored thread.
stored_values_of_any_thread(store, thread_id) ==
    IF store = << >> THEN EmptyState
    ELSE store[CHOOSE t \in DOMAIN store : TRUE]

\* The checkpoint of a thread: what get_state returns and what invoke
\* loads.
stored_values(store, thread_id) ==
    IF thread_id \in DOMAIN store THEN store[thread_id] ELSE EmptyState

\* The channels the route's input overwrites with the values it read from
\* the checkpoint at the start of the turn.
merge_input(loaded, read) ==
    [ loaded EXCEPT
        !.conversation_history = read.conversation_history,
        !.next_graph_to_invoke = read.next_graph_to_invoke,
        !.final_agent_response = read.final_agent_response,
        !.supervisor_error_message = read.supervisor_error_message,
        !.gcs_uri_for_action = read.gcs_uri_for_action,
        !.mime_type_for_action = read.mime_type_for_action ]

\* The other workers whose turn is in flight on the given thread.
Overlapping(w, thread_id) ==
    { o \in Slots \ {w} : /\ requests[o].pc \in InFlight
                          /\ requests[o].thread_id = thread_id }

Concurrent(w) == { o \in Slots \ {w} : requests[o].pc \in InFlight }

\* The requests after worker w saved its state under its thread id.
Saved(w, rec) ==
    [ o \in Slots |->
        IF o = w THEN [ rec EXCEPT !.latest_writer = TRUE ]
        ELSE IF requests[o].thread_id = rec.thread_id
        THEN [ requests[o] EXCEPT !.latest_writer = FALSE ]
        ELSE requests[o] ]

\* agent_chat_route up to the call of safe_supervisor_invoke.
Receive(w, request_thread_id, query, llm) ==
    /\ requests[w].pc \in { "idle", "done", "abandoned" }
    /\ turns < MaxConcTurns
    /\ w # FirstWorker => requests[FirstWorker].pc \in InFlight
    /\ \E thread_id \in { IF request_thread_id = NoId
                          THEN ThreadId("thread", None, uuid + 1)
                          ELSE request_thread_id } :
          /\ requests' =
                 [ o \in Slots |->
                     IF o = w
                     THEN [ IdleRequest EXCEPT
                              !.pc = "invoke",
                              !.thread_id = thread_id,
                              !.query = query,
                              !.document_id = "d1",
                              !.llm = llm,
                              !.fresh = uuid + 1,
                              !.read = stored_values(checkpoints, thread_id),
                              !.own_before =
                                  IF thread_id \in DOMAIN checkpoints
                                  THEN checkpoints[thread_id] ELSE EmptyState,
                              !.overlapped = Overlapping(w, thread_id) # {},
                              !.concurrent = Concurrent(w) # {},
                              !.before_checkpoints = checkpoints,
                              !.before_quiz_checkpoints = quiz_checkpoints ]
                     ELSE IF o \in Overlapping(w, thread_id)
                     THEN [ requests[o] EXCEPT !.overlapped = TRUE,
                                               !.concurrent = TRUE ]
                     ELSE IF o \in Concurrent(w)
                     THEN [ requests[o] EXCEPT !.concurrent = TRUE ]
                     ELSE requests[o] ]
          /\ uuid' = uuid + 3
          /\ turns' = turns + 1
          /\ UNCHANGED << checkpoints, quiz_checkpoints, last >>

\* compiled_supervisor_graph.invoke: the checkpoint is loaded, the input is
\* applied to it and the result is saved.
Load(w) ==
    /\ requests[w].pc = "invoke"
    /\ \E loaded \in { stored_values(checkpoints, requests[w].thread_id) } :
       \E s0 \in { supervisor_input(merge_input(loaded, requests[w].read),
                                    requests[w].query,
                                    requests[w].document_id) } :
          /\ checkpoints' = put_checkpoint(checkpoints, requests[w].thread_id, s0)
          /\ requests' = Saved(w, [ requests[w] EXCEPT
                                      !.pc = "receive_user_input",
                                      !.loaded = loaded,
                                      !.state = s0 ])
    /\ UNCHANGED << quiz_checkpoints, uuid, turns, last >>

RunReceiveUserInput(w) ==
    /\ requests[w].pc = "receive_user_input"
    /\ \E s1 \in { receive_user_input_node(requests[w].state,
                                           requests[w].fresh + 1) } :
          /\ checkpoints' = put_checkpoint(checkpoints, requests[w].thread_id, s1)
          /\ requests' =
                 Saved(w, [ requests[w] EXCEPT
                              !.pc = PcOf(graph_edge("receive_user_input", s1)),
                              !.ran = Append(@, "receive_user_input"),
                              !.state = s1 ])
    /\ UNCHANGED << quiz_checkpoints, uuid, turns, last >>

RunRoutingDecision(w) ==
    /\ requests[w].pc = "routing_decision"
    /\ \E s2 \in { routing_decision_node(requests[w].state, "snippet", "found",
                                         requests[w].fresh + 2) } :
          /\ checkpoints' = put_checkpoint(checkpoints, requests[w].thread_id, s2)
          /\ requests' =
                 Saved(w, [ requests[w] EXCEPT
                              !.pc = PcOf(graph_edge("routing_decision", s2)),
                              !.ran = Append(@, "routing_decision"),
                              !.state = s2 ])
    /\ UNCHANGED << quiz_checkpoints, uuid, turns, last >>

RunNewChatGraph(w) ==
    /\ requests[w].pc = "new_chat_graph"
    /\ \E s3 \in { invoke_new_chat_graph_node(requests[w].state, "response") } :
          /\ checkpoints' = put_checkpoint(checkpoints, requests[w].thread_id, s3)
          /\ requests' =
                 Saved(w, [ requests[w] EXCEPT
                              !.pc = PcOf(graph_edge("new_chat_graph", s3)),
                              !.ran =
                                  IF /\ requests[w].state.user_id # None
                                     /\ requests[w].state.active_chat_thread_id
                                            # NoId
                                  THEN @ \o << "new_chat_graph",
                                               "chat_generator" >>
                                  ELSE Append(@, "new_chat_graph"),
                              !.state = s3 ])
    /\ UNCHANGED << quiz_checkpoints, uuid, turns, last >>

\* invoke_quiz_engine_graph_node up to the return of graph_instance.invoke:
\* the quiz graph runs and saves its state under the quiz thread id.
RunQuizEngine(w) ==
    /\ requests[w].pc = "quiz_engine_graph"
    /\ IF InvokesQuizEngine(requests[w].state)
       THEN \E response_quiz_state \in
                   { call_quiz_engine_node(quiz_input(requests[w].state),
                                           requests[w].llm) } :
               /\ quiz_checkpoints' =
                      Put(quiz_checkpoints,
                          requests[w].state.active_quiz_v2_thread_id,
                          response_quiz_state)
               /\ requests' =
                      [ requests EXCEPT
                          ![w].pc = "quiz_engine_update",
                          ![w].ran = @ \o << "quiz_engine_graph",
                                             "quiz_engine" >>,
                          ![w].quiz_response = response_quiz_state,
                          ![w].quiz_written = TRUE,
                          ![w].quiz_thread_id =
                              requests[w].state.active_quiz_v2_thread_id ]
       ELSE /\ requests' =
                   [ requests EXCEPT
                       ![w].pc = "quiz_engine_update",
                       ![w].ran = Append(@, "quiz_engine_graph") ]
            /\ UNCHANGED quiz_checkpoints
    /\ UNCHANGED << checkpoints, uuid, turns, last >>

\* The rest of invoke_quiz_engine_graph_node and the save after it.
RunQuizEngineUpdate(w) ==
    /\ requests[w].pc = "quiz_engine_update"
    /\ \E s3 \in { invoke_quiz_engine_graph_node(
                       requests[w].state,
                       IF requests[w].quiz_written THEN "state" ELSE Unused,
                       requests[w].quiz_response) } :
          /\ checkpoints' = put_checkpoint(checkpoints, requests[w].thread_id, s3)
          /\ requests' =
                 Saved(w, [ requests[w] EXCEPT
                              !.pc = PcOf(graph_edge("quiz_engine_graph", s3)),
                              !.state = s3 ])
    /\ UNCHANGED << quiz_checkpoints, uuid, turns, last >>

\* agent_chat_route after safe_supervisor_invoke: the dual checkpoint and
\* the response.
Respond(w) ==
    /\ requests[w].pc = "respond"
    /\ \E quiz_thread \in { quiz_specific_thread(requests[w].state,
                                                 requests[w].thread_id) } :
          checkpoints' =
              IF quiz_thread # NoId
              THEN put_checkpoint(checkpoints, quiz_thread, requests[w].state)
              ELSE checkpoints
    /\ requests' =
           [ requests EXCEPT
               ![w].pc = "done",
               ![w].response = response_data(requests[w].state,
                                             requests[w].thread_id) ]
    /\ UNCHANGED << quiz_checkpoints, uuid, turns, last >>

\* The worker stops in the middle of a turn.
Abandon(w) ==
    /\ requests[w].pc \in InFlight
    /\ requests' = [ requests EXCEPT ![w].pc = "abandoned" ]
    /\ UNCHANGED << checkpoints, quiz_checkpoints, uuid, turns, last >>

ConcRequestThreads == {NoId} \cup DOMAIN checkpoints

ConcNext ==
    \E w \in Slots :
        \/ \E request_thread_id \in ConcRequestThreads,
              query \in ConcUtterances, llm \in ConcLLM :
               Receive(w, request_thread_id, query, llm)
        \/ Load(w)
        \/ RunReceiveUserInput(w)
        \/ RunRoutingDecision(w)
        \/ RunNewChatGraph(w)
        \/ RunQuizEngine(w)
        \/ RunQuizEngineUpdate(w)
        \/ Respond(w)
        \/ Abandon(w)

ConcSpec == ConcInit /\ [][ConcNext]_vars

\* The state a turn ends with when nothing but the worker's own reads
\* enters it: the graph run on the checkpoint it loaded, overwritten by the
\* input it built from the checkpoint it read.
OwnResult(request) ==
    run_supervisor_graph(
        supervisor_input(merge_input(request.loaded, request.read),
                         request.query, request.document_id),
        request.fresh, request.llm)

\* C18: two overlapping turns on one thread id can both read the same
\* checkpoint and write one after the other; the thread's checkpoint is
\* then the state of the later writer alone, computed from what that
\* writer read and loaded, and the history entries the earlier turn
\* appended are not in it.
C18_LaterWriterWins ==
    \A a \in Slots, b \in Slots :
        ( /\ a # b
          /\ requests[a].pc = "done"
          /\ requests[b].pc = "done"
          /\ requests[a].thread_id = requests[b].thread_id
          /\ requests[a].read = requests[b].read
          /\ requests[b].latest_writer )
        => /\ checkpoints[requests[b].thread_id] = requests[b].state
           /\ requests[b].state = OwnResult(requests[b])
           /\ Len(checkpoints[requests[b].thread_id].conversation_history)
                  <= Len(requests[b].read.conversation_history) + 2

\* Two turns answered question 1 of the same quiz at the same time: both
\* read the same checkpoint, both invoked the quiz engine and appended to
\* the history, and the checkpoint holds the later writer's state only.
C18_Witness ==
    \E a \in Slots, b \in Slots :
        /\ a # b
        /\ requests[a].pc = "done"
        /\ requests[b].pc = "done"
        /\ requests[a].thread_id = requests[b].thread_id
        /\ requests[a].read = requests[b].read
        /\ requests[a].read.is_quiz_v2_active
        /\ requests[a].quiz_written
        /\ requests[b].quiz_written
        /\ requests[b].latest_writer
        /\ Len(requests[a].state.conversation_history)
               > Len(requests[a].read.conversation_history)
        /\ checkpoints[requests[b].thread_id] = requests[b].state
        /\ Len(checkpoints[requests[b].thread_id].conversation_history)
               = Len(requests[a].state.conversation_history)

\* The state a turn ends with when it runs alone on the checkpoint its
\* thread had when the request arrived.
SequentialResult(request) ==
    run_supervisor_graph(
        supervisor_input(request.own_before, request.query,
                         request.document_id),
        request.fresh, request.llm)

\* The worker whose step this is wrote no checkpoint but the one of its own
\* conversation thread and the one of the quiz thread its state names.
WritesOwnThreadsOnly(w) ==
    /\ \A t \in DOMAIN checkpoints' :
          t # requests[w].thread_id
              => t \in DOMAIN checkpoints /\ checkpoints'[t] = checkpoints[t]
    /\ \A q \in DOMAIN quiz_checkpoints' :
          q # requests[w].state.active_quiz_v2_thread_id
              => /\ q \in DOMAIN quiz_checkpoints
                 /\ quiz_checkpoints'[q] = quiz_checkpoints[q]

\* A served turn that shared its thread id with no other turn left the
\* checkpoints a run on its own leaves.
IndependentOfOtherThreads(w) ==
    ( /\ requests[w].pc = "done"
      /\ ~requests[w].overlapped
      /\ requests[w].latest_writer )
    => /\ checkpoints[requests[w].thread_id] = SequentialResult(requests[w])
       /\ requests[w].quiz_written
              => /\ requests[w].quiz_thread_id \in DOMAIN quiz_checkpoints
                 /\ quiz_checkpoints[requests[w].quiz_thread_id]
                        = SequentialResult(requests[w]).quiz_engine_state

C20_AbandonedTurnLeavesNoTrace ==
    \A w \in Slots :
        ( /\ requests[w].pc = "abandoned"
          /\ ~requests[w].concurrent
          /\ \A o \in Slots \ {w} : requests[o].pc = "idle" )
        => /\ checkpoints = requests[w].before_checkpoints
           /\ quiz_checkpoints = requests[w].before_quiz_checkpoints

\* The nodes and capabilities a whole graph run goes through, in order.
GraphRuns ==
    { << "receive_user_input", "routing_decision" >>,
      << "receive_user_input", "routing_decision", "new_chat_graph" >>,
      << "receive_user_input", "routing_decision", "new_chat_graph",
         "chat_generator" >>,
      << "receive_user_input", "routing_decision", "quiz_engine_graph" >>,
      << "receive_user_input", "routing_decision", "quiz_engine_graph",
         "quiz_engine" >> }

IsPrefix(p, q) == Len(p) <= Len(q) /\ SubSeq(q, 1, Len(p)) = p

\* The number of times x occurs in the sequence run.
Count(run, x) == Cardinality({ i \in 1..Len(run) : run[i] = x })

\* C21: a turn runs turn ingestion once, then the routing decision once,
\* then at most one capability node, whose capability (chat generator or
\* quiz engine) it invokes at most once and never together with the other;
\* when the routing decision selects END no capability node runs.
C21_EachComponentOncePerTurn ==
    /\ [](\A w \in Slots :
            /\ \E run \in GraphRuns : IsPrefix(requests[w].ran, run)
            /\ requests[w].pc \in { "respond", "done" }
                   => requests[w].ran \in GraphRuns
            /\ Count(requests[w].ran, "chat_generator")
                   + Count(requests[w].ran, "quiz_engine") <= 1)
    /\ [][\A w \in Slots :
              ( /\ requests[w].pc = "routing_decision"
                /\ requests'[w].pc \notin { "routing_decision", "abandoned" }
                /\ route_based_on_decision(requests'[w].state) = "end" )
              => /\ requests'[w].pc = "respond"
                 /\ requests'[w].ran
                        = << "receive_user_input", "routing_decision" >>]_vars

\* Two served turns: one ended at END straight after the routing decision
\* (a cancelled quiz), the other invoked the chat generator or the quiz
\* engine.
C21_Witness ==
    \E a \in Slots, b \in Slots :
        /\ requests[a].pc = "done"
        /\ requests[b].pc = "done"
        /\ requests[a].ran = << "receive_user_input", "routing_decision" >>
        /\ requests[b].ran
               \in { << "receive_user_input", "routing_decision",
                        "new_chat_graph", "chat_generator" >>,
                     << "receive_user_input", "routing_decision",
                        "quiz_engine_graph", "quiz_engine" >> }

\* The conversation history a store holds for a thread.
StoredHistory(store, thread_id) ==
    IF thread_id \in DOMAIN store THEN store[thread_id].conversation_history
    ELSE << >>

\* C22: within a thread the conversation history is append-only: the
\* history stored after a turn has the history stored before it as a
\* prefix, and a turn with a non-empty utterance stores that utterance as a
\* human entry directly after the pre-turn history; a first turn "Hello" on
\* a new conversation goes to chat, gets a minted thread id and ends with a
\* history of 1 entry.
C22_HistoryAppendOnly ==
    [][ /\ \A t \in DOMAIN checkpoints :
              /\ t \in DOMAIN checkpoints'
              /\ IsPrefix(checkpoints[t].conversation_history,
                          checkpoints'[t].conversation_history)
        /\ \E before \in { StoredHistory(checkpoints, last'.thread_id) },
              after \in { StoredHistory(checkpoints', last'.thread_id) },
              current_query \in { checkpoints'[last'.thread_id].current_query } :
              /\ IsPrefix(before, after)
              /\ current_query # ""
                    => /\ Len(after) > Len(before)
                       /\ after[Len(before) + 1]
                              = message_to_dict(HumanMessage(current_query))
              /\ (current_query = "Hello" /\ last'.request_thread_id = NoId)
                    => /\ last'.target = "new_chat_graph"
                       /\ last'.thread_id = ThreadId("thread", None, uuid + 1)
                       /\ last'.thread_id \notin DOMAIN checkpoints
                       /\ Len(after) = 1 ]_vars

\* A turn with an utterance was served on a thread that already held a
\* human entry and an assistant entry, and the utterance is the last human
\* entry of the stored history.
C22_Witness ==
    /\ TurnDone
    /\ last.request_thread_id # NoId
    /\ LastQuery # ""
    /\ Len(LastState.conversation_history) >= 3
    /\ \E i \in 1..Len(LastState.conversation_history) :
          LastState.conversation_history[i].type = "ai"
    /\ \E i \in 2..Len(LastState.conversation_history) :
          /\ LastState.conversation_history[i]
                 = message_to_dict(HumanMessage(LastQuery))
          /\ \A j \in (i + 1)..Len(LastState.conversation_history) :
                LastState.conversation_history[j].type # "human"

\* C23: a turn whose utterance resolves to empty text, on a thread with an
\* empty history and no active quiz, ends at END after the routing
\* decision: neither the chat generator nor the quiz engine is invoked and
\* the response is the one receive_user_input_node set.
C23_EmptyUtteranceTerminates ==
    ( /\ TurnDone
      /\ LastQuery = ""
      /\ LastState.conversation_history = << >>
      /\ ~last.was_quiz_active )
    => /\ last.target = "end"
       /\ ~last.chat_invoked
       /\ ~last.engine_invoked
       /\ last.response.response = "Hello! How can I help you today?"

\* ------------------------------------------------------ turns with audio
\* The utterances a request with audio carries as its client-supplied text.
AudioUtterances == { "Hello", " ", "start quiz", "cancel quiz" }

AudioNext ==
    \E request_thread_id \in RequestThreads, query \in AudioUtterances,
       document_id \in DocumentIds, stt \in STTResults :
        agent_chat_route_with_audio(request_thread_id, query, document_id, stt)

AudioSpec == Init /\ [][AudioNext]_vars

\* C24: when speech-to-text fails during turn ingestion the turn still runs
\* to completion on the client-supplied text, and the response of the turn
\* carries the transcription warning as its error detail, whichever target
\* handles the turn.
C24_TranscriptionWarningInResponse ==
    (TurnDone /\ last.stt \in STTFailures)
        => /\ last.thread_id \in DOMAIN checkpoints
           /\ last.response.error_detail = STTWarning(last.stt)

\* C25: with no quiz active, a turn whose utterance matches a
\* document-understanding phrase and no start-quiz phrase takes the
\* document-analysis branch, which ends the turn: the chat generator is not
\* invoked.
C25_DocumentAnalysisIsTerminal ==
    ( /\ TurnDone
      /\ ~last.was_quiz_active
      /\ is_document_understanding_query(LastQuery)
      /\ ~is_quiz_start_query(LastQuery) )
    => /\ last.target # "new_chat_graph"
       /\ ~last.chat_invoked

\* ------------------------------------------------------ message utilities
\* serialize_messages and deserialize_messages applied one after the other
\* to a conversation history; requests holds the call.
MessageContents == { "hi", "" }

Messages ==
    { HumanMessage(c) : c \in MessageContents }
        \cup { AIMessage(c) : c \in MessageContents }
        \cup { SystemMessage(c) : c \in MessageContents }

Histories ==
    UNION { [ 1..n -> Messages ] : n \in 0..MaxHistoryLen }

MessagesInit ==
    /\ checkpoints = << >>
    /\ quiz_checkpoints = << >>
    /\ uuid = 0
    /\ turns = 0
    /\ last = NoTurn
    /\ \E h \in Histories :
          requests = [ stage |-> "messages", input |-> h, value |-> h ]

SerializeMessages ==
    /\ requests.stage = "messages"
    /\ requests' = [ requests EXCEPT
                       !.stage = "serialized",
                       !.value = serialize_messages(requests.value) ]
    /\ UNCHANGED << checkpoints, quiz_checkpoints, uuid, turns, last >>

DeserializeMessages ==
    /\ requests.stage = "serialized"
    /\ requests' = [ requests EXCEPT
                       !.stage = "restored",
                       !.value = deserialize_messages(requests.value) ]
    /\ UNCHANGED << checkpoints, quiz_checkpoints, uuid, turns, last >>

MessagesNext == SerializeMessages \/ DeserializeMessages

MessagesSpec == MessagesInit /\ [][MessagesNext]_vars

\* C26: deserialize_messages(serialize_messages(h)) has the length of h
\* and, position by position, the role and the text content of h, for every
\* history h of human, assistant and system messages; the serialized form
\* in between holds dicts, not messages.
C26_MessagesRoundTrip ==
    /\ requests.stage = "serialized"
           => /\ Len(requests.value) = Len(requests.input)
              /\ \A i \in 1..Len(requests.value) :
                    /\ ~_is_base_message(requests.value[i])
                    /\ requests.value[i].data.content
                           = requests.input[i].content
    /\ requests.stage = "restored"
           => /\ Len(requests.value) = Len(requests.input)
              /\ \A i \in 1..Len(requests.input) :
                    /\ _is_base_message(requests.value[i])
                    /\ requests.value[i].cls = requests.input[i].cls
                    /\ requests.value[i].content = requests.input[i].content

\* A restored history of three messages with the three roles.
C26_Witness ==
    /\ requests.stage = "restored"
    /\ Len(requests.value) = 3
    /\ { requests.value[i].cls : i \in 1..3 }
           = { "HumanMessage", "AIMessage", "SystemMessage" }
    /\ requests.value = requests.input

\* ------------------------------------------------- deep (de)serialization
\* Python values as tagged records: a plain value, a message, a dict (its
\* items a function of its keys), a list and a tuple (their items a
\* sequence).
Plain(v) == [ kind |-> "plain", value |-> v ]

Message(cls, content) ==
    [ kind |-> "message", cls |-> cls, content |-> content ]

Dict(items) == [ kind |-> "dict", entries |-> items ]

List(items) == [ kind |-> "list", items |-> items ]

Tuple(items) == [ kind |-> "tuple", items |-> items ]

MessageTypes == { "human", "ai", "system" }

\* messages_to_dict([obj])[0]
deep_message_to_dict(obj) ==
    Dict([ k \in { "type", "data" } |->
             IF k = "type"
             THEN Plain(CASE obj.cls = "HumanMessage" -> "human"
                          [] obj.cls = "AIMessage" -> "ai"
                          [] obj.cls = "SystemMessage" -> "system")
             ELSE Dict([ c \in { "content" } |-> Plain(obj.content) ]) ])

\* TRUE when messages_from_dict([obj])[0] returns a message for the dict
\* obj, FALSE when it raises.
messages_from_dict_accepts(obj) ==
    /\ obj.entries["type"].kind = "plain"
    /\ obj.entries["type"].value \in MessageTypes
    /\ obj.entries["data"].kind = "dict"
    /\ "content" \in DOMAIN obj.entries["data"].entries
    /\ obj.entries["data"].entries["content"].kind = "plain"

\* messages_from_dict([obj])[0]
deep_message_from_dict(obj) ==
    Message(CASE obj.entries["type"].value = "human" -> "HumanMessage"
              [] obj.entries["type"].value = "ai" -> "AIMessage"
              [] obj.entries["type"].value = "system" -> "SystemMessage",
            obj.entries["data"].entries["content"].value)

RECURSIVE serialize_deep(_)
serialize_deep(obj) ==
    CASE obj.kind = "message" -> deep_message_to_dict(obj)
      [] obj.kind = "dict" ->
             Dict([ k \in DOMAIN obj.entries |-> serialize_deep(obj.entries[k]) ])
      [] obj.kind = "list" ->
             List([ i \in 1..Len(obj.items) |-> serialize_deep(obj.items[i]) ])
      [] obj.kind = "tuple" ->
             Tuple([ i \in 1..Len(obj.items) |-> serialize_deep(obj.items[i]) ])
      [] OTHER -> obj

RECURSIVE deserialize_deep(_)
deserialize_deep(obj) ==
    IF /\ obj.kind = "dict"
       /\ "type" \in DOMAIN obj.entries
       /\ "data" \in DOMAIN obj.entries
    THEN IF messages_from_dict_accepts(obj)
         THEN deep_message_from_dict(obj)
         ELSE obj
    ELSE CASE obj.kind = "dict" ->
                  Dict([ k \in DOMAIN obj.entries |->
                           deserialize_deep(obj.entries[k]) ])
           [] obj.kind = "list" ->
                  List([ i \in 1..Len(obj.items) |->
                           deserialize_deep(obj.items[i]) ])
           [] obj.kind = "tuple" ->
                  Tuple([ i \in 1..Len(obj.items) |->
                            deserialize_deep(obj.items[i]) ])
           [] OTHER -> obj

\* The values the utilities are applied to: plain values and messages, the
\* lists, tuples and dicts of those, and the dicts and lists of these.
DeepAtoms ==
    { Plain("v"), Plain("human") }
        \cup { Message(cls, "hi") :
                 cls \in { "HumanMessage", "AIMessage", "SystemMessage" } }

DeepKeySets == { { "k" }, { "content" }, { "type", "data" } }

DeepLevel1 ==
    DeepAtoms
        \cup { List(items) : items \in UNION { [ 1..n -> DeepAtoms ] : n \in 0..2 } }
        \cup { Tuple(<< a >>) : a \in DeepAtoms }
        \cup UNION { { Dict(items) : items \in [ keys -> DeepAtoms ] } :
                       keys \in DeepKeySets }

DeepValues ==
    DeepLevel1
        \cup { List(<< a >>) : a \in DeepLevel1 }
        \cup UNION { { Dict(items) : items \in [ keys -> DeepLevel1 ] } :
                       keys \in { { "k" }, { "type", "data" } } }

DeepInit ==
    /\ checkpoints = << >>
    /\ quiz_checkpoints = << >>
    /\ uuid = 0
    /\ turns = 0
    /\ last = NoTurn
    /\ \E x \in DeepValues :
          requests = [ stage |-> "value", input |-> x, value |-> x ]

SerializeDeep ==
    /\ requests.stage = "value"
    /\ requests' = [ requests EXCEPT
                       !.stage = "serialized",
                       !.value = serialize_deep(requests.value) ]
    /\ UNCHANGED << checkpoints, quiz_checkpoints, uuid, turns, last >>

DeserializeDeep ==
    /\ requests.stage = "serialized"
    /\ requests' = [ requests EXCEPT
                       !.stage = "restored",
                       !.value = deserialize_deep(requests.value) ]
    /\ UNCHANGED << checkpoints, quiz_checkpoints, uuid, turns, last >>

DeepNext == SerializeDeep \/ DeserializeDeep

DeepSpec == DeepInit /\ [][DeepNext]_vars

\* C27: deserialize_deep(serialize_deep(x)) rebuilds every message nested
\* in x and returns every other value, plain dicts included, unchanged: the
\* round trip gives x back.
C27_DeepRoundTrip ==
    requests.stage = "restored" => requests.value = requests.input

\* ------------------------------------------------------------- _safe_put
\* TRUE when json.dumps(obj) raises TypeError: a message is nested in obj.
RECURSIVE json_dumps_raises(_)
json_dumps_raises(obj) ==
    CASE obj.kind = "message" -> TRUE
      [] obj.kind = "dict" ->
             \E k \in DOMAIN obj.entries : json_dumps_raises(obj.entries[k])
      [] obj.kind \in { "list", "tuple" } ->
             \E i \in 1..Len(obj.items) : json_dumps_raises(obj.items[i])
      [] OTHER -> FALSE

_deep_serialize_for_json(obj) ==
    IF json_dumps_raises(obj) THEN serialize_deep(obj) ELSE obj

\* The argument of the retry left as the caller passed it.
aggressive_args_unserialized(obj) == obj

\* The argument of the retry of _safe_put.
aggressive_args(obj) == serialize_deep(obj)

\* Outcomes of one call of the original SqliteSaver.put.
PutOutcomes == { "returns", "TypeError", "OtherError" }

\* The checkpoints _safe_put is called with.
PutArgs == DeepLevel1

NoPut ==
    [ stage |-> "called", args |-> Plain("v"), calls |-> << >>,
      outcomes |-> << >>, result |-> None, error |-> None ]

SafePutInit ==
    /\ checkpoints = << >>
    /\ quiz_checkpoints = << >>
    /\ uuid = 0
    /\ turns = 0
    /\ last = NoTurn
    /\ \E args \in PutArgs : requests = [ NoPut EXCEPT !.args = args ]

\* The value the n-th call of the original put returns.
PutResult(n) == IF n = 1 THEN "result of call 1" ELSE "result of call 2"

\* _safe_put up to the end of its first try block.
SafePutFirstCall(outcome) ==
    /\ requests.stage = "called"
    /\ requests' =
           [ requests EXCEPT
               !.calls = Append(@, _deep_serialize_for_json(requests.args)),
               !.outcomes = Append(@, outcome),
               !.stage = CASE outcome = "returns" -> "returned"
                           [] outcome = "TypeError" -> "retrying"
                           [] OTHER -> "raised",
               !.result = IF outcome = "returns" THEN PutResult(1) ELSE None,
               !.error = IF outcome = "OtherError" THEN outcome ELSE None ]
    /\ UNCHANGED << checkpoints, quiz_checkpoints, uuid, turns, last >>

\* The except TypeError block of _safe_put.
SafePutRetry(outcome) ==
    /\ requests.stage = "retrying"
    /\ requests' =
           [ requests EXCEPT
               !.calls = Append(@, aggressive_args(requests.args)),
               !.outcomes = Append(@, outcome),
               !.stage = IF outcome = "returns" THEN "returned" ELSE "raised",
               !.result = IF outcome = "returns" THEN PutResult(2) ELSE None,
               !.error = IF outcome = "returns" THEN None ELSE outcome ]
    /\ UNCHANGED << checkpoints, quiz_checkpoints, uuid, turns, last >>

SafePutNext ==
    \E outcome \in PutOutcomes :
        \/ SafePutFirstCall(outcome)
        \/ SafePutRetry(outcome)

SafePutSpec == SafePutInit /\ [][SafePutNext]_vars

C29_NewQuizStartsFresh ==
    (TurnDone /\ last.minted_quiz_thread_id # NoId)
        => /\ last.engine_invoked
           /\ last.engine_thread_id = last.minted_quiz_thread_id
           /\ last.engine_input.status = "generating_first_question"
           /\ last.engine_input.quiz_history = << >>
           /\ last.engine_input.score = 0

\* C30: whenever a quiz is active at the end of a turn, the stored
\* active_quiz_v2_thread_id is the quiz thread id the routing decision
\* minted last for the conversation, the thread id the quiz engine was
\* invoked under and the active_quiz_thread_id of the stored quiz state.
C30_OneQuizThreadId ==
    (TurnDone /\ LastState.is_quiz_v2_active)
        => /\ LastState.active_quiz_v2_thread_id # NoId
           /\ LastState.quiz_engine_state.status # "absent"
           /\ LastState.quiz_engine_state.active_quiz_thread_id
                  = LastState.active_quiz_v2_thread_id
           /\ last.engine_invoked
                  => last.engine_thread_id = LastState.active_quiz_v2_thread_id
           /\ last.minted_quiz_thread_id # NoId
                  => last.minted_quiz_thread_id
                         = LastState.active_quiz_v2_thread_id

====
